---- MODULE Spec2Model ----
(***************************************************************************)
(* Luna backend: the BBT phase-inference engine of                         *)
(* backend/src/domain/cycleAnalysis.js (detectOvulation,                   *)
(* predictPeriodStart, detectCurrentPhase) together with                   *)
(* utils/currentDate.js (getCurrentDate) and the settings it reads.        *)
(*                                                                         *)
(* Time.  Instants are whole hours since an epoch that is a UTC midnight;  *)
(* a Date is its instant, an ISO timestamp string is the instant it        *)
(* denotes.  No operation of the engine looks below the hour.              *)
(*                                                                         *)
(* Numbers.  Temperatures are JavaScript Numbers (IEEE-754 binary64,       *)
(* round to nearest, ties to even).  A sample carries its temperature as   *)
(* the decimal the device sent, in hundredths of a degree (3640 is 36.40); *)
(* Dbl turns it into the double the JSON parser produces.  A double is     *)
(* held exactly, as an integer count of 2^-47 (the spacing of doubles in   *)
(* [32, 64), where every body temperature lies), written as three limbs    *)
(* <<a2, a1, a0>> = a2 * 2^38 + a1 * 2^19 + a0 with 0 <= a1, a0 < 2^19 and *)
(* a2 of either sign.  All temperatures of the model lie in [32, 64).      *)
(***************************************************************************)
EXTENDS Integers, Sequences, FiniteSets, TLC

(***************************************************************************)
(* Exact integer arithmetic on limbs                                       *)
(***************************************************************************)
LB == 524288

LNorm(x) ==
    LET t1 == x[2] + (x[3] \div LB)
    IN  <<x[1] + (t1 \div LB), t1 % LB, x[3] % LB>>

LAdd(x, y) == LNorm(<<x[1] + y[1], x[2] + y[2], x[3] + y[3]>>)

LSub(x, y) == LNorm(<<x[1] - y[1], x[2] - y[2], x[3] - y[3]>>)

LMulS(x, k) == LNorm(<<x[1] * k, x[2] * k, x[3] * k>>)

LGe(x, y) ==
    \/ x[1] > y[1]
    \/ x[1] = y[1] /\ x[2] > y[2]
    \/ x[1] = y[1] /\ x[2] = y[2] /\ x[3] >= y[3]

LLt(x, y) == ~LGe(x, y)

LGt(x, y) == LLt(y, x)

\* x / n for x >= 0 and 0 < n < 4096: quotient limbs and remainder
LDivMod(x, n) ==
    LET t1 == (x[1] % n) * LB + x[2]
        t0 == (t1 % n) * LB + x[3]
    IN  [q |-> <<x[1] \div n, t1 \div n, t0 \div n>>, r |-> t0 % n]

\* x / n rounded to the nearest integer, ties to even
LRoundDiv(x, n) ==
    LET d == LDivMod(x, n)
    IN  IF 2 * d.r > n \/ (2 * d.r = n /\ d.q[3] % 2 = 1)
        THEN LAdd(d.q, <<0, 0, 1>>)
        ELSE d.q

(***************************************************************************)
(* binary64 operations, as the engine uses them                            *)
(***************************************************************************)
\* the double nearest to h / 100, for 32 <= h / 100 < 64
Dbl(h) == LRoundDiv(<<h * 512, 0, 0>>, 100)

\* x + y for doubles x, y >= 0: the exact sum rounded to the spacing of the
\* binade it falls in (1, 2, 4, 8 units in [0,64), [64,128), [128,256),
\* [256,512))
FAdd(x, y) ==
    LET s == LAdd(x, y)
        g == IF s[1] < 32768 THEN 1
             ELSE IF s[1] < 65536 THEN 2
             ELSE IF s[1] < 131072 THEN 4 ELSE 8
    IN  LMulS(LRoundDiv(s, g), g)

\* s / n for a double s >= 0 whose quotient lies in [32, 64)
FDiv(s, n) == LRoundDiv(s, n)

\* x - y for doubles of [32, 64): the difference is a double, no rounding
FSub(x, y) == LSub(x, y)

\* the literals 0.1 and 0.2 added to or subtracted from a double of
\* [32, 64) move it by the literal rounded to a whole unit
Lit01 == <<51, 104857, 314573>>
Lit02 == <<102, 209715, 104858>>

\* x >= 0.3, x >= 0.4, x >= 0.5, x >= 0.2 for a double x that is a whole
\* number of units: the least whole number of units not below the literal
Ge03 == <<153, 314572, 419431>>
Ge04 == <<204, 419430, 209716>>
Ge05 == <<256, 0, 0>>
Ge02 == <<102, 209715, 104858>>

\* parseFloat(x.toFixed(2)) for a double x >= 0, in hundredths:
\* floor(100 x + 1/2) on the exact value of x
ToFixed2(x) == LAdd(LMulS(x, 100), <<256, 0, 0>>)[1] \div 512

(***************************************************************************)
(* Sequences of samples                                                    *)
(***************************************************************************)
\* a.slice(from, to) with 0-based, end-exclusive indices already clamped
Slice(s, from, to) == SubSeq(s, from + 1, to)

\* no cut: the whole array
SliceWhole(s, n) == s

\* a.slice(-n)
SliceLast(s, n) == IF Len(s) <= n THEN s ELSE Slice(s, Len(s) - n, Len(s))

\* a.slice(0, n)
SliceFirst(s, n) == IF Len(s) <= n THEN s ELSE Slice(s, 0, n)

\* [...a].sort((a, b) => dir * (new Date(a.timestamp) - new Date(b.timestamp)))
\* on a copy: dir = 1 sorts oldest first, dir = -1 newest first; the sort is
\* stable, samples of equal timestamp keep their input order
Cmp(a, b, dir) == dir * (a.timestamp - b.timestamp)

\* the position (1-based) that s[j] takes in the sorted copy
Rank(s, j, dir) ==
    1 + Cardinality({m \in 1..Len(s) :
                        \/ Cmp(s[m], s[j], dir) < 0
                        \/ Cmp(s[m], s[j], dir) = 0 /\ m < j})

SortByTimestamp(s, dir) ==
    LET n    == Len(s)
        rank == SubSeq([j \in 1..n |-> Rank(s, j, dir)], 1, n)
    IN  SubSeq([k \in 1..n |-> s[CHOOSE j \in 1..n : rank[j] = k]], 1, n)

\* a.sort(cmp) called on the caller's array itself: what it leaves there
SortedInPlace(a, dir) == SortByTimestamp(a, dir)

\* what [...a].sort(cmp) leaves in the caller's array a: the spread makes a
\* new array of the same sample objects, sort() reorders that one, and
\* nothing writes to a sample
AfterSortOfCopy(a, dir) == a

\* reduce((sum, r) => sum + r.temperature, 0): left to right, from 0
\* the callback applied from index k (1-based) on to the running sum; each
\* step binds the new running sum to its value before it goes on
RECURSIVE SumFrom(_, _, _)
SumFrom(sum, s, k) ==
    IF k > Len(s) THEN sum
    ELSE CHOOSE r \in {SumFrom(next, s, k + 1) :
                           next \in {FAdd(sum, Dbl(s[k].temperature))}} : TRUE

SumTemps(s) == CHOOSE r \in {SumFrom(<<0, 0, 0>>, a, 1) : a \in {s}} : TRUE

(***************************************************************************)
(* detectOvulation                                                         *)
(***************************************************************************)
Null == [detected |-> FALSE]

\* the values computed for candidate index i (0-based) of recentReadings
Window(recentReadings, i) ==
    LET baselineDays == Slice(recentReadings, i - 6, i)
        baselineAvg  == FDiv(SumTemps(baselineDays), Len(baselineDays))
        riseDays     == Slice(recentReadings, i, i + 3)
        riseAvg      == FDiv(SumTemps(riseDays), Len(riseDays))
    IN  [baselineAvg |-> baselineAvg,
         riseAvg     |-> riseAvg,
         allAboveBaseline |->
             \A k \in 1..Len(riseDays) :
                 LGe(Dbl(riseDays[k].temperature), LAdd(baselineAvg, Lit01)),
         avgRise     |-> FSub(riseAvg, baselineAvg),
         date        |-> riseDays[1].timestamp]

Fires(w) == LGe(w.avgRise, Ge03) /\ w.allAboveBaseline

\* the tiers one threshold too low
ConfidenceShifted(avgRise) ==
    IF LGe(avgRise, Ge04) THEN "high"
    ELSE IF LGe(avgRise, Ge03) THEN "medium" ELSE "low"

\* the tiers tested in the wrong order
ConfidenceSwapped(avgRise) ==
    IF LGe(avgRise, Ge04) THEN "medium"
    ELSE IF LGe(avgRise, Ge05) THEN "high" ELSE "low"

Confidence(avgRise) ==
    IF LGe(avgRise, Ge05) THEN "high"
    ELSE IF LGe(avgRise, Ge04) THEN "medium" ELSE "low"

Event(w) ==
    [detected          |-> TRUE,
     date              |-> w.date,
     confidence        |-> Confidence(w.avgRise),
     temperatureRise   |-> ToFixed2(w.avgRise),
     baselineTemp      |-> ToFixed2(w.baselineAvg),
     postOvulationTemp |-> ToFixed2(w.riseAvg)]

\* the indices from i on that the for loop can visit and at which its test
\* (avgRise >= 0.3 && allAboveBaseline) succeeds
Hits(recentReadings, i) ==
    {j \in i..(Len(recentReadings) - 3) : Fires(Window(recentReadings, j))}

\* the scan that keeps going and returns the last match
ScanLast(recentReadings, i) ==
    LET hits == Hits(recentReadings, i)
    IN  IF hits = {} THEN Null
        ELSE Event(Window(recentReadings, CHOOSE j \in hits : \A k \in hits : k <= j))

\* for (let i = 6; i < recentReadings.length - 2; i++) from index i on: the
\* loop returns at the first index at which its test succeeds, and the
\* function returns null when the loop ends
Scan(recentReadings, i) ==
    LET hits == Hits(recentReadings, i)
    IN  IF hits = {} THEN Null
        ELSE Event(Window(recentReadings, CHOOSE j \in hits : \A k \in hits : j <= k))

\* no minimum length, and a rise window that may run off the end
RECURSIVE ScanPartial(_, _)
ScanPartial(recentReadings, i) ==
    IF ~(i < Len(recentReadings)) THEN Null
    ELSE LET n            == Len(recentReadings)
             baselineDays == Slice(recentReadings, i - 6, i)
             baselineAvg  == FDiv(SumTemps(baselineDays), 6)
             riseDays     == Slice(recentReadings, i, IF i + 3 < n THEN i + 3 ELSE n)
             riseAvg      == FDiv(SumTemps(riseDays), Len(riseDays))
             w == [baselineAvg |-> baselineAvg, riseAvg |-> riseAvg,
                   allAboveBaseline |->
                       \A k \in 1..Len(riseDays) :
                           LGe(Dbl(riseDays[k].temperature), LAdd(baselineAvg, Lit01)),
                   avgRise |-> FSub(riseAvg, baselineAvg),
                   date |-> riseDays[1].timestamp]
         IN  IF Fires(w) THEN Event(w) ELSE ScanPartial(recentReadings, i + 1)

detectOvulationNoMinimum(readings) ==
    ScanPartial(SliceLast(SortByTimestamp(readings, 1), 30), 6)

detectOvulation(readings) ==
    IF Len(readings) < 9 THEN Null
    ELSE LET sorted         == SortByTimestamp(readings, 1)
             recentReadings == SliceLast(sorted, 30)
         IN  Scan(recentReadings, 6)

(***************************************************************************)
(* State                                                                   *)
(***************************************************************************)
VARIABLES
    readings,       \* the sample array a caller hands to the engine, in the caller's order
    userSettings,   \* store.js userSettings.preferences
    clock,          \* the wall clock, what new Date() returns
    tz,             \* hours the process's local time is ahead of UTC
    dst,            \* hours the local clocks are moved forward at DstStart by
                    \* the process's time zone (0: the zone has no such change)
    call,           \* the latest call or request answered: function, arguments,
                    \* the instant getCurrentDate() gave it, the returned value
    dailyCache,     \* bunny.js dailyCache: date key to the response stored for it
    rateLimitedModels, \* bunny.js rateLimitedModels: model name to the instant
                    \* it was marked
    requests,       \* the /bunny requests that are awaiting the model API
    modelCalls,     \* every call made to the model API so far
    millis,         \* the device's millis(), an unsigned long
    uptime,         \* the milliseconds the device has really been up
    lastTouchState, \* firmware global
    lastReadingTime,\* firmware global
    started         \* the uptimes of the presses that started a reading

\* the state of routes/bunny.js and of the ESP32 firmware
bunnyVars == <<dailyCache, rateLimitedModels, requests, modelCalls>>
espVars == <<millis, uptime, lastTouchState, lastReadingTime, started>>

vars == <<readings, userSettings, clock, tz, dst, call, bunnyVars, espVars>>

(***************************************************************************)
(* Dates                                                                   *)
(***************************************************************************)
\* (1000 * 60 * 60 * 24) ms, in hours
DayLen == 24

\* the instant at which the time zone moves its clocks by dst hours
DstStart == 17 * DayLen + 7

\* the local time of instant t, as Date's local accessors see it
Offset(t) == IF t >= DstStart THEN tz + dst ELSE tz

ToLocal(t) == t + Offset(t)

\* the instant a local time stands for, as Date's local setters resolve it:
\* a local time that the change repeats or skips is read with the offset
\* in force before the change
FromLocal(l) ==
    IF l - tz < DstStart THEN l - tz
    ELSE IF l - (tz + dst) >= DstStart THEN l - (tz + dst)
    ELSE l - tz

\* d.setHours(0, 0, 0, 0): the local midnight at or before d
Midnight(d) == FromLocal((ToLocal(d) \div DayLen) * DayLen)

\* d.setDate(d.getDate() + n): n local days later, same local time of day
AddDays(d, n) == FromLocal(ToLocal(d) + n * DayLen)

\* d.toISOString().split('T')[0]: the UTC calendar day, as a day number
IsoDate(d) == d \div DayLen

\* the day count stopped at 0
CeilDaysClamped(x) == IF x <= 0 THEN 0 ELSE -((-x) \div DayLen)

\* Math.ceil(x / (1000 * 60 * 60 * 24))
CeilDays(x) == -((-x) \div DayLen)

\* Math.floor(x / (1000 * 60 * 60 * 24))
FloorDays(x) == x \div DayLen

(***************************************************************************)
(* getCurrentDate (utils/currentDate.js)                                   *)
(***************************************************************************)
\* an object is a function from the keys it has to their values
Has(obj, k) == k \in DOMAIN obj

\* { ...a, ...b }
Spread(a, b) ==
    [k \in DOMAIN a \cup DOMAIN b |-> IF k \in DOMAIN b THEN b[k] ELSE a[k]]

\* null and a value v of a field that may be null
None == <<>>
Some(v) == <<v>>

\* new Date(`${date}T12:00:00.000Z`) for the day number date
NoonUTC(date) == date * DayLen + 12

getCurrentDate ==
    LET sim == userSettings.simulation
    IN  IF /\ Has(sim, "enabled") /\ sim.enabled
           /\ Has(sim, "date") /\ sim.date # None
        THEN NoonUTC(sim.date[1])
        ELSE clock

\* const today = getCurrentDate(); today.setHours(0, 0, 0, 0)
Today == Midnight(getCurrentDate)

(***************************************************************************)
(* predictPeriodStart                                                      *)
(***************************************************************************)
NoPrediction == [predicted |-> FALSE]

\* the prediction measured from now itself, not from its midnight
predictPeriodStartFromNow(ovulation) ==
    IF ~ovulation.detected THEN NoPrediction
    ELSE LET earliestPeriod == AddDays(ovulation.date, 12)
             latestPeriod   == AddDays(ovulation.date, 14)
             mostLikely     == AddDays(ovulation.date, 13)
             today          == getCurrentDate
         IN  [windowStart         |-> IsoDate(earliestPeriod),
              windowEnd           |-> IsoDate(latestPeriod),
              mostLikely          |-> IsoDate(mostLikely),
              daysUntilEarliest   |-> CeilDays(earliestPeriod - today),
              daysUntilLatest     |-> CeilDays(latestPeriod - today),
              daysUntilMostLikely |-> CeilDays(mostLikely - today),
              confidence          |-> ovulation.confidence,
              isInWindow          |-> today >= earliestPeriod /\ today <= latestPeriod]

predictPeriodStart(ovulation) ==
    IF ~ovulation.detected THEN NoPrediction
    ELSE LET ovulationDate  == ovulation.date
             earliestPeriod == AddDays(ovulationDate, 12)
             latestPeriod   == AddDays(ovulationDate, 14)
             mostLikely     == AddDays(ovulationDate, 13)
             today          == Today
         IN  [windowStart         |-> IsoDate(earliestPeriod),
              windowEnd           |-> IsoDate(latestPeriod),
              mostLikely          |-> IsoDate(mostLikely),
              daysUntilEarliest   |-> CeilDays(earliestPeriod - today),
              daysUntilLatest     |-> CeilDays(latestPeriod - today),
              daysUntilMostLikely |-> CeilDays(mostLikely - today),
              confidence          |-> ovulation.confidence,
              isInWindow          |-> today >= earliestPeriod /\ today <= latestPeriod]

(***************************************************************************)
(* detectCurrentPhase                                                      *)
(***************************************************************************)
\* a.reduce((a, b) => a + b) over three temperatures, no initial value
Sum3(s) == FAdd(FAdd(Dbl(s[1].temperature), Dbl(s[2].temperature)),
                Dbl(s[3].temperature))

\* the older window averaged without checking that it has three samples
TrendShortOlder(sorted) ==
    IF Len(sorted) >= 4
    THEN LET avgRecent == FDiv(Sum3(SliceFirst(sorted, 3)), 3)
             older3    == Slice(sorted, 3, IF Len(sorted) < 6 THEN Len(sorted) ELSE 6)
             avgOlder  == FDiv(SumTemps(older3), 3)
         IN  IF LGe(FSub(avgRecent, avgOlder), Ge02) THEN "rising"
             ELSE IF LGe(FSub(avgOlder, avgRecent), Ge02) THEN "falling"
             ELSE "stable"
    ELSE "stable"

\* the older window taken one sample further back
TrendOlderShifted(sorted) ==
    IF Len(sorted) >= 7
    THEN LET avgRecent == FDiv(Sum3(SliceFirst(sorted, 3)), 3)
             avgOlder  == FDiv(Sum3(Slice(sorted, 4, 7)), 3)
         IN  IF LGe(FSub(avgRecent, avgOlder), Ge02) THEN "rising"
             ELSE IF LGe(FSub(avgOlder, avgRecent), Ge02) THEN "falling"
             ELSE "stable"
    ELSE "stable"

\* lines 117-131; sorted is newest first
Trend(sorted) ==
    IF Len(sorted) >= 3
    THEN LET avgRecent == FDiv(Sum3(SliceFirst(sorted, 3)), 3)
             older3    == IF Len(sorted) <= 3 THEN <<>>
                          ELSE Slice(sorted, 3, IF Len(sorted) < 6 THEN Len(sorted) ELSE 6)
         IN  IF Len(older3) >= 3
             THEN LET avgOlder == FDiv(Sum3(older3), 3)
                  IN  IF LGe(FSub(avgRecent, avgOlder), Ge02) THEN "rising"
                      ELSE IF LGe(FSub(avgOlder, avgRecent), Ge02) THEN "falling"
                      ELSE "stable"
             ELSE "stable"
    ELSE "stable"

\* the sum of up to seven samples always divided by 7
AvgBBTOver7(sorted) == FDiv(SumTemps(SliceFirst(sorted, 7)), 7)

\* sorted.slice(0, 7).reduce(...) / Math.min(7, sorted.length)
AvgBBT(sorted) ==
    FDiv(SumTemps(SliceFirst(sorted, 7)), IF Len(sorted) < 7 THEN Len(sorted) ELSE 7)

\* the luteal phase one day short
PhaseByDaysShort(daysSinceOvulation) ==
    IF daysSinceOvulation < 0 THEN "pre-ovulation"
    ELSE IF daysSinceOvulation = 0 THEN "ovulation"
    ELSE IF daysSinceOvulation < 14 THEN "luteal"
    ELSE "pre-menstrual"

\* the day of ovulation counted as still before it
PhaseByDaysFromOne(daysSinceOvulation) ==
    IF daysSinceOvulation <= 0 THEN "pre-ovulation"
    ELSE IF daysSinceOvulation <= 14 THEN "luteal"
    ELSE "pre-menstrual"

\* lines 136-168
PhaseByDays(daysSinceOvulation) ==
    IF daysSinceOvulation < 0 THEN "pre-ovulation"
    ELSE IF daysSinceOvulation = 0 THEN "ovulation"
    ELSE IF daysSinceOvulation <= 14 THEN "luteal"
    ELSE "pre-menstrual"

\* the baseline asked for with one sample fewer
PhaseByTemperatureMin5(sorted) ==
    IF Len(sorted) < 5 THEN "insufficient-data"
    ELSE LET currentBBT == Dbl(sorted[1].temperature)
             avgBBT     == FDiv(SumTemps(SliceFirst(sorted, 7)),
                                IF Len(sorted) < 7 THEN Len(sorted) ELSE 7)
         IN  IF LLt(currentBBT, LSub(avgBBT, Lit01)) THEN "pre-ovulation"
             ELSE IF LGt(currentBBT, LAdd(avgBBT, Lit02)) THEN "post-ovulation"
             ELSE "transition"

\* the baseline asked for with as many samples as ovulation detection needs
PhaseByTemperatureMin9(sorted) ==
    IF Len(sorted) < 9 THEN "insufficient-data"
    ELSE LET currentBBT == Dbl(sorted[1].temperature)
             avgBBT     == FDiv(SumTemps(SliceFirst(sorted, 7)), 7)
         IN  IF LLt(currentBBT, LSub(avgBBT, Lit01)) THEN "pre-ovulation"
             ELSE IF LGt(currentBBT, LAdd(avgBBT, Lit02)) THEN "post-ovulation"
             ELSE "transition"

\* lines 169-197
PhaseByTemperature(sorted) ==
    IF Len(sorted) < 6 THEN "insufficient-data"
    ELSE LET currentBBT == Dbl(sorted[1].temperature)
             avgBBT     == AvgBBT(sorted)
         IN  IF LLt(currentBBT, LSub(avgBBT, Lit01)) THEN "pre-ovulation"
             ELSE IF LGt(currentBBT, LAdd(avgBBT, Lit02)) THEN "post-ovulation"
             ELSE "transition"

\* the phaseName set together with each phase
PhaseName(phase) ==
    CASE phase = "pre-ovulation"     -> "Pre-Ovulation"
      [] phase = "ovulation"         -> "Ovulation Detected"
      [] phase = "luteal"            -> "Luteal Phase"
      [] phase = "pre-menstrual"     -> "Pre-Menstrual"
      [] phase = "insufficient-data" -> "Building Baseline"
      [] phase = "post-ovulation"    -> "Post-Ovulation"
      [] phase = "transition"        -> "Transition Phase"

\* the answer for no samples given as the answer for too few
UnknownAsInsufficient ==
    [phase |-> "insufficient-data", phaseName |-> "Building Baseline",
     temperature |-> None, trend |-> "stable", daysSinceOvulation |-> None]

\* lines 97-107: what is returned for no samples (of the three texts the
\* phaseName is carried)
Unknown ==
    [phase |-> "unknown", phaseName |-> "Unknown", temperature |-> None,
     trend |-> "null", daysSinceOvulation |-> None]

detectCurrentPhase(rs) ==
    IF Len(rs) = 0
    THEN Unknown
    ELSE LET sorted    == SortByTimestamp(rs, -1)
             latest    == sorted[1]
             ovulation == detectOvulation(SortByTimestamp(rs, 1))
             daysSinceOvulation ==
                 FloorDays(Today - Midnight(ovulation.date))
             phase     == IF ovulation.detected
                          THEN PhaseByDays(daysSinceOvulation)
                          ELSE PhaseByTemperature(sorted)
         IN  [phase              |-> phase,
              phaseName          |-> PhaseName(phase),
              temperature        |-> Some(latest.temperature),
              trend              |-> Trend(sorted),
              ovulation          |-> ovulation,
              periodPrediction   |-> predictPeriodStart(ovulation),
              daysSinceOvulation |-> IF ovulation.detected
                                     THEN Some(daysSinceOvulation) ELSE None,
              avgBBT             |-> AvgBBT(sorted)]

(***************************************************************************)
(* Inputs                                                                  *)
(***************************************************************************)
Sample(t, ts) == [temperature |-> t, timestamp |-> ts]

\* n daily samples taken at hour h of days d0, d0 + 1, ...: temperature lo
\* before index p, mid from p to q - 1, hi from q on; oldest first
Profile(n, d0, h, p, q, lo, mid, hi) ==
    [k \in 1..n |-> Sample(IF k - 1 < p THEN lo ELSE IF k - 1 < q THEN mid ELSE hi,
                           (d0 + k - 1) * DayLen + h)]

Reverse(s) == [k \in 1..Len(s) |-> s[Len(s) + 1 - k]]

\* the second half of s followed by the first half
Rotate(s) ==
    LET r == Len(s) \div 2
    IN  [k \in 1..Len(s) |-> IF k <= Len(s) - r THEN s[r + k] ELSE s[k - (Len(s) - r)]]

Ordered(s, ord) ==
    IF ord = "oldestFirst" THEN s
    ELSE IF ord = "newestFirst" THEN Reverse(s) ELSE Rotate(s)

Orders == {"oldestFirst", "newestFirst", "rotated"}

(***************************************************************************)
(* Bounds                                                                  *)
(***************************************************************************)
\* the wall clock stops at the end of day MaxDay
MaxDay == 21

\* the wall clock starts at 13:00 UTC of day 19
StartClock == 19 * DayLen + 13

\* a caller's array grows to at most MaxLen samples
MaxLen == 10

\* the exhaustively enumerated sequences have at most MaxShort samples
MaxShort == 7

\* the wall clock moves in steps of half a day
TickLen == DayLen \div 2

(***************************************************************************)
(* Operations                                                              *)
(***************************************************************************)
NoCall == [fn |-> "none"]

\* bunny.js as loaded: empty cache, no model marked, nothing in flight
BunnyIdle ==
    /\ dailyCache = <<>>
    /\ rateLimitedModels = <<>>
    /\ requests = {}
    /\ modelCalls = {}

\* the firmware's globals as initialised, on a device that is not running
DeviceOff ==
    /\ millis = 0
    /\ uptime = 0
    /\ lastTouchState = FALSE
    /\ lastReadingTime = 0
    /\ started = <<>>

\* a caller runs detectOvulation(readings)
DetectOvulation ==
    /\ call' = [fn |-> "detectOvulation", readings |-> readings,
                now |-> None, result |-> detectOvulation(readings)]
    /\ readings' = AfterSortOfCopy(readings, 1)
    /\ UNCHANGED <<userSettings, clock, tz, dst, bunnyVars, espVars>>

\* a caller runs predictPeriodStart on the event detected in readings
PredictPeriodStart ==
    /\ call' = [fn |-> "predictPeriodStart", readings |-> readings,
                now |-> Some(getCurrentDate),
                result |-> predictPeriodStart(detectOvulation(readings))]
    /\ readings' = AfterSortOfCopy(readings, 1)
    /\ UNCHANGED <<userSettings, clock, tz, dst, bunnyVars, espVars>>

\* a caller runs detectCurrentPhase(readings)
DetectCurrentPhase ==
    /\ call' = [fn |-> "detectCurrentPhase", readings |-> readings,
                now |-> IF Len(readings) = 0 THEN None ELSE Some(getCurrentDate),
                result |-> detectCurrentPhase(readings)]
    /\ readings' = IF Len(readings) = 0 THEN readings
                   ELSE AfterSortOfCopy(AfterSortOfCopy(readings, -1), 1)
    /\ UNCHANGED <<userSettings, clock, tz, dst, bunnyVars, espVars>>

\* time passes
Tick ==
    /\ clock + TickLen <= MaxDay * DayLen
    /\ clock' = clock + TickLen
    /\ UNCHANGED <<readings, userSettings, tz, dst, call, bunnyVars, espVars>>

\* PUT /settings (routes/settings.js); of the settings only the
\* preferences are carried, the other three sections are merged the same
\* way and nothing reads them
PutSettings(body) ==
    /\ userSettings' =
           IF Has(body, "preferences")
           THEN LET merged == Spread(userSettings, body.preferences)
                IN  IF Has(body.preferences, "simulation")
                    THEN [merged EXCEPT !.simulation =
                              Spread(merged.simulation, body.preferences.simulation)]
                    ELSE merged
           ELSE userSettings
    /\ UNCHANGED <<readings, clock, tz, dst, call, bunnyVars, espVars>>

\* a newly saved reading joins the caller's array: one day after the newest
\* sample, or (a reading that arrives late) one day before the oldest
MaxTs(s) ==
    CHOOSE t \in {s[k].timestamp : k \in 1..Len(s)} :
        \A k \in 1..Len(s) : s[k].timestamp <= t

MinTs(s) ==
    CHOOSE t \in {s[k].timestamp : k \in 1..Len(s)} :
        \A k \in 1..Len(s) : s[k].timestamp >= t

AppendTimes(s) ==
    IF s = <<>> THEN {0} ELSE {MaxTs(s) + DayLen, MinTs(s) - DayLen}

AppendSample(t, ts) ==
    /\ Len(readings) < MaxLen
    /\ readings' = Append(readings, Sample(t, ts))
    /\ UNCHANGED <<userSettings, clock, tz, dst, call, bunnyVars, espVars>>

(***************************************************************************)
(* HTTP routes (routes/temperature.js, routes/data.js); readings is the    *)
(* temperatures table, timestamps are ISO strings and compare as instants  *)
(***************************************************************************)
\* getAllTemperatures().reverse().map(...): oldest first
getReadingsArray == SortByTimestamp(readings, 1)

\* SELECT ... WHERE date(timestamp) = date(?) ORDER BY timestamp DESC LIMIT 1
getTemperatureForDate(dateStr) ==
    LET rows == SelectSeq(SortByTimestamp(readings, -1),
                          LAMBDA r : IsoDate(r.timestamp) = dateStr)
    IN  IF rows = <<>> THEN None ELSE Some(rows[1])

\* the epoch is 1 January: month 0 is January, month 1 February; day numbers
\* of the first days, and new Date(year, month + 1, 0).getDate()
MonthStart(month) == IF month = 0 THEN 0 ELSE 31
daysInMonth(month) == IF month = 0 THEN 31 ELSE 28

\* new Date(year, month, day): local midnight of the day-th day (1-based)
DateOf(month, day) == FromLocal((MonthStart(month) + day - 1) * DayLen)

\* new Date().getMonth()
CurrentMonth == IF ToLocal(clock) \div DayLen < MonthStart(1) THEN 0 ELSE 1

\* SELECT ... WHERE timestamp >= startDate AND timestamp <= endDate ORDER BY
\* timestamp ASC, from local midnight of the 1st to 23:59:59 of the last day
getTemperaturesForMonth(month) ==
    SelectSeq(SortByTimestamp(readings, 1),
              LAMBDA r : /\ r.timestamp >= DateOf(month, 1)
                         /\ r.timestamp < DateOf(month, daysInMonth(month) + 1))

\* monthReadings.find(r => UTC day of r.timestamp === dateStr)
DayReading(monthReadings, dateStr) ==
    LET hits == {k \in 1..Len(monthReadings) :
                    IsoDate(monthReadings[k].timestamp) = dateStr}
    IN  IF hits = {} THEN None
        ELSE Some(monthReadings[CHOOSE k \in hits : \A j \in hits : k <= j])

\* the label of a day that has a reading, with ovulation detected: the day
\* whose UTC date is the event's, else by the whole days from the event's
\* instant to the day's local midnight
CalendarPhaseByDays(date, ovulation) ==
    IF IsoDate(date) = IsoDate(ovulation.date) THEN "ovulation"
    ELSE LET daysSinceOv == FloorDays(date - ovulation.date)
         IN  IF daysSinceOv < 0 THEN "pre-ovulation"
             ELSE IF daysSinceOv <= 14 THEN "luteal"
             ELSE "pre-menstrual"

\* the label of a day that has a reading, with no ovulation detected: the
\* day's temperature against the mean of all readings
CalendarPhaseByTemperature(dayReading, allReadings) ==
    IF Len(allReadings) > 0
    THEN LET avgBBT == FDiv(SumTemps(allReadings), Len(allReadings))
             t      == Dbl(dayReading.temperature)
         IN  IF LLt(t, LSub(avgBBT, Lit01)) THEN "pre-ovulation"
             ELSE IF LGt(t, LAdd(avgBBT, Lit02)) THEN "luteal"
             ELSE "null"
    ELSE "null"

\* the body of the for loop of GET /calendar: one entry of calendarData
CalendarEntry(month, day, monthReadings, allReadings, ovulation) ==
    LET date       == DateOf(month, day)
        dateStr    == IsoDate(date)
        dayReading == DayReading(monthReadings, dateStr)
    IN  [day         |-> day,
         date        |-> dateStr,
         phase       |-> IF dayReading = None THEN "null"
                         ELSE IF ovulation.detected
                         THEN CalendarPhaseByDays(date, ovulation)
                         ELSE CalendarPhaseByTemperature(dayReading[1], allReadings),
         hasReading  |-> dayReading # None,
         temperature |-> IF dayReading = None THEN None
                         ELSE Some(dayReading[1].temperature),
         isOvulationDay |-> /\ dayReading # None
                            /\ ovulation.detected
                            /\ dateStr = IsoDate(ovulation.date)]

\* the response of GET /temperature/calendar built from the readings of
\* the month, all readings and the detected event
CalendarResponse(month, monthReadings, allReadings, ovulation) ==
    [status       |-> 200,
     month        |-> month,
     daysInMonth  |-> daysInMonth(month),
     calendarData |-> SubSeq([day \in 1..daysInMonth(month) |->
                                 CalendarEntry(month, day, monthReadings,
                                               allReadings, ovulation)],
                             1, daysInMonth(month)),
     ovulation    |-> ovulation,
     currentPhase |-> detectCurrentPhase(allReadings).phase]

\* GET /temperature/calendar?year=&month= for a month of the year the clock
\* is in; parseInt(req.query.month) || new Date().getMonth() takes the
\* clock's month when the query has no month or asks for month 0
Calendar(query) ==
    CHOOSE response \in
        {CalendarResponse(month, getTemperaturesForMonth(month), allReadings,
                          ovulation) :
            month \in {IF query = None \/ query[1] = 0 THEN CurrentMonth
                       ELSE query[1]},
            allReadings \in {getReadingsArray},
            ovulation \in {detectOvulation(getReadingsArray)}} : TRUE

\* the response of GET /temperature/today built from today's reading and
\* the phase; phaseInfo.avgBBT is undefined when there are no readings,
\* toFixed throws and the catch answers 500
TodayResponse(todayStr, todayReading, phaseInfo) ==
    IF ~Has(phaseInfo, "avgBBT") THEN [status |-> 500]
    ELSE [status             |-> 200,
          date               |-> todayStr,
          temperature        |-> IF todayReading = None THEN None
                                 ELSE Some(todayReading[1].temperature),
          hasReading         |-> todayReading # None,
          phase              |-> phaseInfo.phase,
          phaseName          |-> phaseInfo.phaseName,
          trend              |-> phaseInfo.trend,
          avgBBT             |-> ToFixed2(phaseInfo.avgBBT),
          ovulation          |-> phaseInfo.ovulation,
          periodPrediction   |-> phaseInfo.periodPrediction,
          daysSinceOvulation |-> phaseInfo.daysSinceOvulation,
          readingsCount      |-> Len(readings)]

\* GET /temperature/today: today is new Date()
TodaySummary ==
    CHOOSE response \in
        {TodayResponse(IsoDate(clock), getTemperatureForDate(IsoDate(clock)),
                       detectCurrentPhase(rs)) :
            rs \in {getReadingsArray}} : TRUE

\* GET /temperature/phase
Phase ==
    CHOOSE response \in
        {[status |-> 200, phaseInfo |-> detectCurrentPhase(rs)] :
            rs \in {getReadingsArray}} : TRUE

\* lastNDatesUTC(n, baseDate): the n UTC days that end with baseDate's
lastNDatesUTC(n, baseDate) == [i \in 1..n |-> IsoDate(baseDate) - (n - i)]

\* const windowDays = 28
windowDays == 28

\* temperatureData of GET /data/chart: one entry per date of the window,
\* with the latest reading of that date
TemperatureData(windowDates, ovulation) ==
    [idx \in 1..Len(windowDates) |->
        LET reading == getTemperatureForDate(windowDates[idx])
        IN  [index      |-> idx,
             date       |-> windowDates[idx],
             temp       |-> IF reading = None THEN None
                            ELSE Some(reading[1].temperature),
             hasReading |-> reading # None,
             isOvulationDay |-> /\ ovulation.detected
                                /\ IsoDate(ovulation.date) = windowDates[idx]]]

\* the response of GET /data/chart built from temperatureData
ChartResponse(windowDates, ovulation, temperatureData) ==
    LET inWindow == SelectSeq(temperatureData, LAMBDA d : d.hasReading)
        tempsInWindow == [k \in 1..Len(inWindow) |->
                             [temperature |-> inWindow[k].temp[1]]]
        marked   == {idx \in 1..Len(windowDates) : temperatureData[idx].isOvulationDay}
    IN  [status           |-> 200,
         temperatureData  |-> temperatureData,
         avgTemp          |-> IF Len(tempsInWindow) = 0 THEN None
                              ELSE Some(ToFixed2(FDiv(SumTemps(tempsInWindow),
                                                      Len(tempsInWindow)))),
         ovulationMarkers |-> IF marked = {} THEN <<>>
                              ELSE <<[date        |-> IsoDate(ovulation.date),
                                      index       |-> CHOOSE i \in marked :
                                                          \A j \in marked : i <= j,
                                      temperature |-> ovulation.postOvulationTemp,
                                      confidence  |-> ovulation.confidence]>>,
         ovulation        |-> ovulation,
         totalReadings    |-> Len(readings),
         window           |-> [days  |-> windowDays,
                               start |-> windowDates[1],
                               end   |-> windowDates[Len(windowDates)]]]

\* GET /data/chart
Chart ==
    CHOOSE response \in
        {ChartResponse(windowDates, ovulation,
                       SubSeq(TemperatureData(windowDates, ovulation), 1, windowDays)) :
            windowDates \in {SubSeq(lastNDatesUTC(windowDays, getCurrentDate),
                                    1, windowDays)},
            ovulation \in {detectOvulation(getReadingsArray)}} : TRUE

\* a client asks for the calendar of a month
GetCalendar(query) ==
    /\ call' = [fn |-> "calendar", readings |-> readings, query |-> query,
                now |-> Some(getCurrentDate), result |-> Calendar(query)]
    /\ UNCHANGED <<readings, userSettings, clock, tz, dst, bunnyVars, espVars>>

\* a client asks for today's summary
GetToday ==
    /\ call' = [fn |-> "today", readings |-> readings,
                now |-> Some(getCurrentDate), result |-> TodaySummary]
    /\ UNCHANGED <<readings, userSettings, clock, tz, dst, bunnyVars, espVars>>

\* a client asks for the current phase
GetPhase ==
    /\ call' = [fn |-> "phase", readings |-> readings,
                now |-> Some(getCurrentDate), result |-> Phase]
    /\ UNCHANGED <<readings, userSettings, clock, tz, dst, bunnyVars, espVars>>

\* a client asks for the chart
GetChart ==
    /\ call' = [fn |-> "chart", readings |-> readings,
                now |-> Some(getCurrentDate), result |-> Chart]
    /\ UNCHANGED <<readings, userSettings, clock, tz, dst, bunnyVars, espVars>>

(***************************************************************************)
(* Specification of the engine under a moving clock and changing settings  *)
(***************************************************************************)
\* store.js: the settings a fresh process starts with
InitSettings ==
    [temperatureUnit |-> "Celsius", simulation |-> [enabled |-> FALSE, date |-> None]]

SimDates == {5, 21}

SimBodies ==
    {[enabled |-> TRUE], [enabled |-> FALSE]}
    \cup {[enabled |-> TRUE, date |-> Some(d)] : d \in SimDates}

Bodies ==
    {[preferences |-> [simulation |-> b]] : b \in SimBodies}
    \cup {[device |-> [connected |-> TRUE]]}

\* nine daily samples with a rise on the seventh, started on different days
\* so that "now" falls before, on and after the day of the rise
DaySeeds ==
    {Ordered(Profile(9, d0, h, 6, 9, 3640, mid, mid), "rotated") :
        d0 \in {-3, -2, -1, 0, 12, 13, 14}, h \in {7, 23}, mid \in {3640, 3680}}

\* a zone behind UTC that keeps one offset, moves its clocks forward or
\* moves them back, and a zone ahead of UTC that keeps one offset
Zones == {<<-5, 0>>, <<-5, 1>>, <<-5, -1>>, <<9, 0>>}

Init ==
    /\ readings \in DaySeeds
    /\ userSettings = InitSettings
    /\ clock = StartClock
    /\ \E z \in Zones : tz = z[1] /\ dst = z[2]
    /\ call = NoCall
    /\ BunnyIdle
    /\ DeviceOff

Next ==
    \/ DetectOvulation
    \/ PredictPeriodStart
    \/ DetectCurrentPhase
    \/ Tick
    \/ \E body \in Bodies : PutSettings(body)

Spec == Init /\ [][Next]_vars

(***************************************************************************)
(* Specification of detectOvulation over families of temperature curves    *)
(***************************************************************************)
\* the process as it starts: default settings, a fixed clock and zone
FixedEnv ==
    /\ userSettings = InitSettings
    /\ clock = StartClock
    /\ tz = 0
    /\ dst = 0
    /\ call = NoCall
    /\ BunnyIdle
    /\ DeviceOff

\* lo before the first step, mid after it, hi after the second step
Curves ==
    {<<3640, 3640, 3640>>, <<3640, 3660, 3660>>, <<3640, 3670, 3670>>,
     <<3630, 3670, 3670>>, <<3630, 3675, 3675>>, <<3630, 3680, 3680>>,
     <<3630, 3690, 3690>>, <<3640, 3670, 3720>>, <<3640, 3690, 3640>>,
     <<3640, 3640, 3700>>}

DetectSeeds ==
    {Ordered(Profile(n, 0, 7, p, p + w, c[1], c[2], c[3]), ord) :
        n \in {8, 9, 10, 12, 31, 33}, p \in {6, 7, 9}, w \in {1, 3, 6},
        c \in Curves, ord \in Orders}

\* the temperatures of readings that join an array
AppendTemps == {3640, 3700}

InitDetect == readings \in DetectSeeds /\ FixedEnv

NextDetect ==
    \/ DetectOvulation
    \/ \E t \in AppendTemps : \E ts \in AppendTimes(readings) : AppendSample(t, ts)

SpecDetect == InitDetect /\ [][NextDetect]_vars

\* eight or nine daily samples that step up at index p and again at index 8
ConfidenceSeeds ==
    {Ordered(Profile(n, 0, 7, p, 8, lo, mid, hi), ord) :
        n \in {8, 9}, p \in {5, 6}, lo \in {3630, 3640},
        mid \in {3670, 3680, 3690}, hi \in {3670, 3720}, ord \in Orders}

InitConfidence == readings \in ConfidenceSeeds /\ FixedEnv

SpecConfidence == InitConfidence /\ [][NextDetect]_vars

(***************************************************************************)
(* Specification of detectOvulation on six days at 36.30-36.40 followed by *)
(* three days at 36.70-36.80                                               *)
(***************************************************************************)
ScenarioA ==
    {Ordered([k \in 1..9 |-> Sample(IF k <= 6 THEN b[k] ELSE r[k], (k - 1) * DayLen + 7)], ord) :
        b \in [1..6 -> {3630, 3640}], r \in [7..9 -> {3670, 3675, 3680}],
        ord \in Orders}

InitScenarioA == readings \in ScenarioA /\ FixedEnv

NextScenarioA == DetectOvulation

SpecScenarioA == InitScenarioA /\ [][NextScenarioA]_vars

(***************************************************************************)
(* Specification of the engine on short sequences                          *)
(***************************************************************************)
ShortTemps == {3640, 3652, 3664}

FlatTemps == {3600, 3640, 3655, 3725}

SeqsOfLen(n) ==
    {Ordered([k \in 1..n |-> Sample(t[k], (k - 1) * DayLen + 7)], ord) :
        ord \in {"oldestFirst", "rotated"}, t \in [1..n -> ShortTemps]}

ShortSeeds == UNION {SeqsOfLen(n) : n \in 0..MaxShort}

FlatSeeds ==
    {Profile(n, 0, 7, n, n, t, t, t) : n \in {8, 9}, t \in FlatTemps}

\* up to eight samples that end in a rise of 0.6 degrees
RiseSeeds ==
    {Profile(n, 0, 7, p, n, 3630, 3690, 3690) : n \in 6..8, p \in 3..7}

InitPhase == readings \in ShortSeeds \cup FlatSeeds \cup RiseSeeds /\ FixedEnv

NextPhase ==
    \/ DetectOvulation
    \/ DetectCurrentPhase

SpecPhase == InitPhase /\ [][NextPhase]_vars

(***************************************************************************)
(* Specification of GET /temperature/calendar over tables of daily         *)
(* readings                                                                *)
(***************************************************************************)
\* nine daily samples taken at hour h with a rise on the seventh (or none,
\* when mid is the baseline), then three more on the 14th, 15th and 16th
\* day after the seventh
Table(d0, h, mid) ==
    Profile(9, d0, h, 6, 9, 3640, mid, mid)
        \o [k \in 1..3 |-> Sample(mid, (d0 + 19 + k) * DayLen + h)]

CalendarSeeds ==
    {Table(d0, h, mid) : d0 \in {-1, 0}, h \in {2, 7, 23}, mid \in {3640, 3680}}
    \cup {<<>>}

\* the months a client asks for: none given, January, February
Queries == {None, Some(0), Some(1)}

InitCalendar ==
    /\ readings \in CalendarSeeds
    /\ userSettings = InitSettings
    /\ clock = StartClock
    /\ \E z \in Zones : tz = z[1] /\ dst = z[2]
    /\ call = NoCall
    /\ BunnyIdle
    /\ DeviceOff

NextCalendar == \E query \in Queries : GetCalendar(query)

SpecCalendar == InitCalendar /\ [][NextCalendar]_vars

(***************************************************************************)
(* Specification of the routes that read the current date, under a moving  *)
(* clock and changing settings                                             *)
(***************************************************************************)
RouteSeeds ==
    {Table(d0, 7, mid) : d0 \in {-1, 0}, mid \in {3640, 3680}} \cup {<<>>}

InitRoutes ==
    /\ readings \in RouteSeeds
    /\ userSettings = InitSettings
    /\ clock = StartClock
    /\ \E z \in Zones : tz = z[1] /\ dst = z[2]
    /\ call = NoCall
    /\ BunnyIdle
    /\ DeviceOff

NextRoutes ==
    \/ GetToday
    \/ GetPhase
    \/ GetChart
    \/ Tick
    \/ \E body \in Bodies : PutSettings(body)

SpecRoutes == InitRoutes /\ [][NextRoutes]_vars

(***************************************************************************)
(* POST /temperature (routes/temperature.js, db/temperatureRepository.js)  *)
(* and the timestamps the device sends (createJSONPayload)                 *)
(***************************************************************************)
\* 1970-01-01T00:00Z, the instant Unix time counts from; the model's epoch is
\* 1 January 2025, 20089 days later
UnixEpoch == -(20089 * DayLen)

\* new Date(parseInt(timestamp) * 1000) for a Unix time, here in hours
FromUnix(n) == UnixEpoch + n

\* the Unix time of instant t, what WiFi.getTime() gives once NTP is synced
ToUnix(t) == t - UnixEpoch

\* createJSONPayload: WiFi.getTime(), or the time since boot when that is 0
DeviceTimestamp(ntp, sinceBoot) == IF ntp = 0 THEN sinceBoot ELSE ntp

\* a body's timestamp is a number (Unix time) or an ISO string (its instant)
IsoTimestamp(timestamp) ==
    IF Has(timestamp, "unix") THEN FromUnix(timestamp.unix) ELSE timestamp.iso

\* !timestamp: a missing field, or the number 0
Falsy(body, k) ==
    \/ ~Has(body, k)
    \/ k = "temperature" /\ body[k] = 0
    \/ k = "timestamp" /\ Has(body[k], "unix") /\ body[k].unix = 0

\* DELETE FROM temperatures WHERE timestamp < cutoff, with cutoff the wall
\* clock moved daysToKeep local days back
cleanupOldReadings(rows, daysToKeep) ==
    SelectSeq(rows, LAMBDA r : ~(r.timestamp < AddDays(clock, -daysToKeep)))

\* the table after insertTemperature
insertTemperature(rows, temperature, timestamp) ==
    Append(rows, Sample(temperature, timestamp))

\* the table cleanupOldReadings(90) leaves after the insert of POST /temperature
AfterPost(body) ==
    cleanupOldReadings(insertTemperature(readings, body.temperature,
                                         IsoTimestamp(body.timestamp)), 90)

\* a table takes at most MaxRows rows
MaxRows == 3

\* POST /temperature with a body
PostTemperature(body) ==
    IF Falsy(body, "temperature") \/ Falsy(body, "timestamp")
    THEN /\ call' = [fn |-> "postTemperature", body |-> body,
                     result |-> [status |-> 400]]
         /\ UNCHANGED <<readings, userSettings, clock, tz, dst, bunnyVars, espVars>>
    ELSE /\ Len(readings) < MaxRows
         /\ readings' = AfterPost(body)
         /\ call' = [fn |-> "postTemperature", body |-> body,
                     result |-> [status  |-> 201,
                                 success |-> TRUE,
                                 reading |-> Sample(body.temperature,
                                                    IsoTimestamp(body.timestamp))]]
         /\ UNCHANGED <<userSettings, clock, tz, dst, bunnyVars, espVars>>

\* what a device sends: network time, or the hours since boot when network
\* time is unavailable; and what another client sends: an ISO timestamp 89
\* or 91 days old, or no timestamp
PostBodies ==
    {[temperature |-> 3650,
      timestamp |-> [unix |-> DeviceTimestamp(ntp, 1)]] : ntp \in {0, ToUnix(clock)}}
    \cup {[temperature |-> 3660, timestamp |-> [iso |-> clock - d * DayLen]] :
              d \in {89, 91}}
    \cup {[temperature |-> 3650], [temperature |-> 0, timestamp |-> [unix |-> 0]]}

\* tables of up to two rows, one of them 100 days older than the clock
PostSeeds ==
    {<<>>, <<Sample(3640, 18 * DayLen + 7)>>,
     <<Sample(3640, -(81 * DayLen)), Sample(3640, 18 * DayLen + 7)>>}

InitPost ==
    /\ readings \in PostSeeds
    /\ userSettings = InitSettings
    /\ clock = StartClock
    /\ \E z \in Zones : tz = z[1] /\ dst = z[2]
    /\ call = NoCall
    /\ BunnyIdle
    /\ DeviceOff

NextPost ==
    \/ \E body \in PostBodies : PostTemperature(body)
    \/ Tick

SpecPost == InitPost /\ [][NextPost]_vars

(***************************************************************************)
(* GET /bunny and POST /bunny/ask (routes/bunny.js), with the model API    *)
(* configured.  A handler runs without interruption up to an await of the  *)
(* model API and again from the answer to the next await or the response.  *)
(***************************************************************************)
MODEL_FALLBACKS ==
    <<"gemini-3-flash-preview", "gemini-2.5-flash", "gemini-2.0-flash-exp",
      "gemini-2.0-flash", "gemini-1.5-flash-002", "gemini-1.5-flash-001">>

\* the for loop visits the first NumModels entries of the list
NumModels == 2

Models == SubSeq(MODEL_FALLBACKS, 1, NumModels)

\* { ...obj, [k]: v }
With(obj, k, v) == [x \in DOMAIN obj \cup {k} |-> IF x = k THEN v ELSE obj[x]]

\* obj with the keys of del deleted
Without(obj, del) == [x \in DOMAIN obj \ del |-> obj[x]]

\* a check that never finds a model rate limited
NeverRateLimited(rl, modelName) == FALSE

\* isModelRateLimited with the records rl: marked on the local day of now
isModelRateLimited(rl, modelName) ==
    /\ Has(rl, modelName)
    /\ Midnight(rl[modelName]) = Midnight(clock)

markModelRateLimited(rl, modelName) == With(rl, modelName, clock)

\* the records older than one day are deleted
cleanupRateLimitCache(rl) ==
    Without(rl, {modelName \in DOMAIN rl : rl[modelName] < AddDays(clock, -1)})

\* today.setHours(0, 0, 0, 0); today.toISOString().split('T')[0]
TodayStr == IsoDate(Midnight(clock))

\* the cache entries older than seven days are deleted; new Date(dateStr) is
\* the UTC midnight of the date
CleanDailyCache(cache) ==
    Without(cache, {dateStr \in DOMAIN cache : dateStr * DayLen < AddDays(clock, -7)})

\* the position in the list of the first model from position i on
\* that the for loop does not skip, 0 when it skips them all
NextModel(rl, i) ==
    LET open == {j \in i..Len(Models) : ~isModelRateLimited(rl, Models[j])}
    IN  IF open = {} THEN 0 ELSE CHOOSE j \in open : \A k \in open : j <= k

\* the number given to the next request that calls the model API
NewId == Cardinality({e.id : e \in modelCalls}) + 1

\* ai.models.generateContent({model, ...}) is called for request r
CallModel(r, j, seq) ==
    [id |-> r.id, kind |-> r.kind, todayStr |-> r.todayStr, seq |-> seq,
     model |-> Models[j], outcome |-> "pending", limitedOn |-> None]

\* the responses
FallbackResponse(phase) ==
    [status |-> 200, fallback |-> TRUE, model |-> None, phase |-> phase]

BunnyResponse(phase, usedModel) ==
    [status |-> 200, fallback |-> FALSE, model |-> Some(usedModel), phase |-> phase]

AskResponse(phase, usedModel) ==
    [status |-> 200, model |-> Some(usedModel), phase |-> phase]

AllLimited(rl) == [status |-> 429, fallback |-> TRUE, rateLimitedModels |-> DOMAIN rl]

\* the for loop of request r from position i on with the records rl, its
\* seq-th call: the next model is called, or none is left and the request
\* is answered (GET /bunny stores the fallback response for its date)
Loop(r, rl, i, seq, calls, waiting) ==
    LET j == NextModel(rl, i)
    IN  /\ rateLimitedModels' = rl
        /\ IF j # 0
           THEN /\ modelCalls' = calls \cup {CallModel(r, j, seq)}
                /\ requests' = waiting \cup {r}
                /\ UNCHANGED <<dailyCache, call>>
           ELSE /\ modelCalls' = calls
                /\ requests' = waiting
                /\ IF r.kind = "get"
                   THEN /\ dailyCache' = With(dailyCache, r.todayStr,
                                              FallbackResponse(r.phase))
                        /\ call' = [fn |-> "bunny", id |-> r.id,
                                    result |-> FallbackResponse(r.phase)]
                   ELSE /\ UNCHANGED dailyCache
                        /\ call' = [fn |-> "ask", id |-> r.id,
                                    result |-> AllLimited(rl)]

\* a request can take a number while fewer than MaxRequests have called
\* the model API
MaxRequests == 2

\* GET /bunny arrives
GetBunny ==
    /\ IF Has(dailyCache, TodayStr)
       THEN /\ call' = [fn |-> "bunny", id |-> 0, result |-> dailyCache[TodayStr]]
            /\ UNCHANGED bunnyVars
       ELSE /\ NewId <= MaxRequests
            /\ Loop([id |-> NewId, kind |-> "get", todayStr |-> TodayStr,
                     phase |-> detectCurrentPhase(readings).phase],
                    cleanupRateLimitCache(rateLimitedModels), 1, 1,
                    modelCalls, requests)
    /\ UNCHANGED <<readings, userSettings, clock, tz, dst, espVars>>

\* POST /bunny/ask arrives with a question
PostAsk(question) ==
    /\ IF question = ""
       THEN /\ call' = [fn |-> "ask", id |-> 0, result |-> [status |-> 400]]
            /\ UNCHANGED bunnyVars
       ELSE /\ NewId <= MaxRequests
            /\ Loop([id |-> NewId, kind |-> "ask", todayStr |-> TodayStr,
                     phase |-> detectCurrentPhase(readings).phase],
                    cleanupRateLimitCache(rateLimitedModels), 1, 1,
                    modelCalls, requests)
    /\ UNCHANGED <<readings, userSettings, clock, tz, dst, espVars>>

\* the entry of the call request r is awaiting
Pending(r) == CHOOSE e \in modelCalls : e.id = r.id /\ e.outcome = "pending"

\* the entry with the answer; limitedOn is the local day of a rate-limit error
Answered(e, outcome) ==
    [e EXCEPT !.outcome = outcome,
              !.limitedOn = IF outcome = "rateLimit"
                            THEN Some(ToLocal(clock) \div DayLen) ELSE None]

ModelIndex(modelName) ==
    CHOOSE j \in 1..Len(Models) : Models[j] = modelName

\* the model API answers the call request r is awaiting with a response
Succeed(r) ==
    /\ r \in requests
    /\ modelCalls' = (modelCalls \ {Pending(r)}) \cup {Answered(Pending(r), "ok")}
    /\ requests' = requests \ {r}
    /\ IF r.kind = "get"
       THEN /\ dailyCache' =
                   CleanDailyCache(With(dailyCache, r.todayStr,
                                        BunnyResponse(r.phase, Pending(r).model)))
            /\ call' = [fn |-> "bunny", id |-> r.id,
                        result |-> BunnyResponse(r.phase, Pending(r).model)]
       ELSE /\ UNCHANGED dailyCache
            /\ call' = [fn |-> "ask", id |-> r.id,
                        result |-> AskResponse(r.phase, Pending(r).model)]
    /\ UNCHANGED <<readings, userSettings, clock, tz, dst, rateLimitedModels, espVars>>

\* the model API answers the call request r is awaiting with an error whose
\* message has 429 or RESOURCE_EXHAUSTED in it (rateLimited) or has not
Fail(r, rateLimited) ==
    /\ r \in requests
    /\ Loop(r,
            IF rateLimited
            THEN markModelRateLimited(rateLimitedModels, Pending(r).model)
            ELSE rateLimitedModels,
            ModelIndex(Pending(r).model) + 1,
            Pending(r).seq + 1,
            (modelCalls \ {Pending(r)})
                \cup {Answered(Pending(r), IF rateLimited THEN "rateLimit" ELSE "error")},
            requests \ {r})
    /\ UNCHANGED <<readings, userSettings, clock, tz, dst, espVars>>

\* the store's readings when the requests arrive
BunnySeeds == {Profile(9, 10, 7, 6, 9, 3640, 3680, 3680)}

\* the server's zone
BunnyZones == {<<-5, 0>>}

InitBunny ==
    /\ readings \in BunnySeeds
    /\ userSettings = InitSettings
    /\ clock = StartClock
    /\ \E z \in BunnyZones : tz = z[1] /\ dst = z[2]
    /\ call = NoCall
    /\ BunnyIdle
    /\ DeviceOff

NextBunny ==
    \/ GetBunny
    \/ \E question \in {"", "How am I?"} : PostAsk(question)
    \/ \E r \in requests : Succeed(r)
    \/ \E r \in requests : \E rateLimited \in BOOLEAN : Fail(r, rateLimited)
    \/ Tick

SpecBunny == InitBunny /\ [][NextBunny]_vars

(***************************************************************************)
(* The ESP32 sketch (part_000).  Device time is counted in units of 4 ms,  *)
(* which divide every delay of the sketch and the 2^32 ms after which      *)
(* millis() starts again at 0; uptime is the time since boot without that  *)
(* limit, and started holds the uptime of the press of every reading       *)
(* taken.                                                                  *)
(***************************************************************************)
Ms(n) == n \div 4

\* unsigned long is 32 bits wide: 2^32 ms
Word == 2^30

READING_COOLDOWN == Ms(5000)

\* a - b in unsigned long
USub(a, b) == (a - b + Word) % Word

\* a cooldown check that lets every press pass
CooldownIgnored(currentTime, last) == TRUE

\* currentTime - lastReadingTime > READING_COOLDOWN
CooldownOver(currentTime, last) == USub(currentTime, last) > READING_COOLDOWN

\* setup(): delay(1000), then connectToWiFi() with the network there at
\* once or after one delay(500)
SetupTimes == {Ms(1000), Ms(1000 + 500)}

\* connectToWiFi() in loop(): not called, or 20 attempts of delay(500)
WiFiTimes == {0, Ms(20 * 500)}

\* takeReading(): 800 ms for the sensor's conversion, and then the early
\* return (sensor disconnected), or 100 ms for the request and delay(1000)
\* (sent) or delay(2000) (not sent)
ReadingTimes == {Ms(800), Ms(800 + 100 + 1000), Ms(800 + 100 + 2000)}

\* the numbers of loop() iterations that pass without a change of the touch
\* pin; the last is the number of iterations after which millis() has gone
\* round once, less 2096 ms
WrapIterations == (Word - Ms(2000)) \div Ms(100)
IdleRuns == {1, 10, 41, WrapIterations}

\* the device is followed for HorizonSeconds after boot and again for
\* HorizonSeconds after millis() has gone round
HorizonSeconds == 13
Horizon == Ms(HorizonSeconds * 1000)
WrapTime == WrapIterations * Ms(100)
Room == IF uptime >= WrapTime THEN WrapTime + Horizon - uptime ELSE Horizon - uptime

\* one iteration of loop(): touched is currentTouchState, wifi the time
\* connectToWiFi() takes, taken the time takeReading() takes if it is called
loop(touched, wifi, taken) ==
    LET currentTime == (millis + wifi) % Word
        accepted == /\ touched /\ ~lastTouchState
                    /\ CooldownOver(currentTime, lastReadingTime)
        busy == wifi + (IF accepted THEN taken ELSE 0) + Ms(100)
    IN  /\ busy <= Room
        /\ started' = IF accepted THEN Append(started, uptime + wifi) ELSE started
        /\ lastReadingTime' = IF accepted THEN currentTime ELSE lastReadingTime
        /\ lastTouchState' = touched
        /\ millis' = (millis + busy) % Word
        /\ uptime' = uptime + busy
        /\ UNCHANGED <<readings, userSettings, clock, tz, dst, call, bunnyVars>>

\* n iterations of loop() in which the touch pin reads what it read in the
\* iteration before and the network is there: nothing but delay(100) each
Idle(n) ==
    /\ \/ n * Ms(100) <= Room
       \/ n = WrapIterations /\ uptime <= Horizon
    /\ millis' = (millis + n * Ms(100)) % Word
    /\ uptime' = uptime + n * Ms(100)
    /\ UNCHANGED <<lastTouchState, lastReadingTime, started>>
    /\ UNCHANGED <<readings, userSettings, clock, tz, dst, call, bunnyVars>>

InitDevice ==
    /\ readings = <<>>
    /\ userSettings = InitSettings
    /\ clock = StartClock
    /\ tz = 0 /\ dst = 0
    /\ call = NoCall
    /\ BunnyIdle
    /\ millis \in SetupTimes
    /\ uptime = millis
    /\ lastTouchState = FALSE
    /\ lastReadingTime = 0
    /\ started = <<>>

NextDevice ==
    \/ \E touched \in BOOLEAN : \E wifi \in WiFiTimes : \E taken \in ReadingTimes :
           loop(touched, wifi, taken)
    \/ \E n \in IdleRuns : Idle(n)

SpecDevice == InitDevice /\ [][NextDevice]_vars

(***************************************************************************)
(* Specification of detectCurrentPhase called day after day on the same    *)
(* samples, from two days before the zone's clock change on                *)
(***************************************************************************)
RolloverStart == 15 * DayLen + 13

\* the samples of DaySeeds, nine daily samples whose rise begins one or two
\* days before the clock change, and nine taken at 05:00 UTC, which is
\* midnight in the zones five hours behind UTC
RolloverSeeds ==
    DaySeeds
    \cup {Profile(9, d0, 7, 6, 9, 3640, 3680, 3680) : d0 \in {9, 10}}
    \cup {Profile(9, d0, 5, 6, 9, 3640, 3680, 3680) : d0 \in {1, 2}}

\* a day passes: new Date() is 24 hours later
NextDay ==
    /\ clock + DayLen <= MaxDay * DayLen
    /\ clock' = clock + DayLen
    /\ UNCHANGED <<readings, userSettings, tz, dst, call, bunnyVars, espVars>>

InitRollover ==
    /\ readings \in RolloverSeeds
    /\ userSettings = InitSettings
    /\ clock = RolloverStart
    /\ \E z \in Zones : tz = z[1] /\ dst = z[2]
    /\ call = NoCall
    /\ BunnyIdle
    /\ DeviceOff

NextRollover ==
    \/ DetectCurrentPhase
    \/ NextDay

SpecRollover == InitRollover /\ [][NextRollover]_vars

(***************************************************************************)
(* Properties                                                              *)
(***************************************************************************)
Range(s) == {s[k] : k \in 1..Len(s)}

\* the samples of s from oldest to newest, for samples of distinct timestamps
Chronological(s) ==
    [k \in 1..Len(s) |->
        CHOOSE x \in Range(s) :
            Cardinality({y \in Range(s) : y.timestamp < x.timestamp}) = k - 1]

\* the 30 newest samples of s, oldest first
Newest30(s) ==
    LET c == Chronological(s)
        m == IF Len(s) < 30 THEN Len(s) ELSE 30
    IN  [k \in 1..m |-> c[Len(s) - m + k]]

\* the indices (0-based) at which the 3-over-6 rule is met
Qualifying(rec) == {i \in 6..(Len(rec) - 3) : Fires(Window(rec, i))}

First(Q) == CHOOSE i \in Q : \A j \in Q : i <= j

Detected(c) == c.fn = "detectOvulation" /\ c.result.detected

\* C1: on 9 or more samples detectOvulation returns the event of the
\* smallest index of the 30 newest samples, taken oldest first, at which the
\* 3-over-6 rule is met, dated by the sample at that index, and null when
\* there is no such index
C1_FirstMatch ==
    (call.fn = "detectOvulation" /\ Len(call.readings) >= 9) =>
        LET rec == Newest30(call.readings)
            Q   == Qualifying(rec)
        IN  IF Q = {} THEN call.result = Null
            ELSE /\ call.result.detected
                 /\ call.result.date = rec[First(Q) + 1].timestamp
                 /\ call.result.temperatureRise = ToFixed2(Window(rec, First(Q)).avgRise)

\* more than 30 samples handed over out of order, and a later rise that is
\* stronger than the one returned
C1_Witness ==
    /\ Detected(call)
    /\ Len(call.readings) > 30
    /\ call.readings # Chronological(call.readings)
    /\ LET rec == Newest30(call.readings)
           Q   == Qualifying(rec)
       IN  \E j \in Q : /\ j > First(Q)
                        /\ LGt(Window(rec, j).avgRise, Window(rec, First(Q)).avgRise)
                        /\ call.result.date = rec[First(Q) + 1].timestamp

\* C2: detectOvulation returns null on every sequence of fewer than 9 samples
C2_TooFewSamples ==
    (call.fn = "detectOvulation" /\ Len(call.readings) < 9) => call.result = Null

\* eight samples whose last two lie 0.6 degrees above the six before them
C2_Witness ==
    /\ call.fn = "detectOvulation"
    /\ call.readings = Profile(8, 0, 7, 6, 8, 3630, 3690, 3690)
    /\ call.result = Null

\* the local calendar day of an instant
LocalDay(d) == ToLocal(d) \div DayLen

PhaseCall(c) == c.fn = "detectCurrentPhase" /\ Len(c.readings) > 0

Newest7(s) ==
    LET c == Chronological(s)
        m == IF Len(s) < 7 THEN Len(s) ELSE 7
    IN  [k \in 1..m |-> c[Len(s) + 1 - k]]

\* C4: without a detected ovulation and with 6 or more samples the phase
\* is pre-ovulation when the newest temperature is below avgBBT7 - 0.1,
\* post-ovulation when it is above avgBBT7 + 0.2 and transition otherwise
C4_PhaseByTemperature ==
    (PhaseCall(call) /\ Len(call.readings) >= 6 /\ ~call.result.ovulation.detected) =>
        LET n7      == Newest7(call.readings)
            latest  == Dbl(n7[1].temperature)
            avgBBT7 == FDiv(SumTemps(n7), Len(n7))
        IN  call.result.phase =
                IF LLt(latest, LSub(avgBBT7, Lit01)) THEN "pre-ovulation"
                ELSE IF LGt(latest, LAdd(avgBBT7, Lit02)) THEN "post-ovulation"
                ELSE "transition"

\* six samples, the newest above the mean of all six by more than 0.2
C4_Witness ==
    /\ PhaseCall(call)
    /\ Len(call.readings) = 6
    /\ ~call.result.ovulation.detected
    /\ call.result.phase = "post-ovulation"

\* C5 as stated: every sequence of fewer than 6 samples is classified
\* insufficient-data
C5_Original ==
    (call.fn = "detectCurrentPhase" /\ Len(call.readings) < 6) =>
        call.result.phase = "insufficient-data"

\* C5 amended: a sequence of 1 to 5 samples is classified insufficient-data,
\* the empty sequence unknown
C5_ShortIsInsufficient ==
    (call.fn = "detectCurrentPhase" /\ Len(call.readings) < 6) =>
        call.result.phase =
            IF Len(call.readings) = 0 THEN "unknown" ELSE "insufficient-data"

C5_Witness ==
    /\ call.fn = "detectCurrentPhase"
    /\ Len(call.readings) = 5
    /\ call.result.phase = "insufficient-data"

\* C6 as stated: the trend of every sequence of fewer than 6 samples, the
\* empty one included, is stable
C6_Original ==
    (call.fn = "detectCurrentPhase" /\ Len(call.readings) < 6) =>
        call.result.trend = "stable"

\* C6 amended: the trend of a sequence of 1 to 5 samples is stable, that of
\* the empty sequence is null
C6_ShortIsStable ==
    (call.fn = "detectCurrentPhase" /\ Len(call.readings) < 6) =>
        call.result.trend = IF Len(call.readings) = 0 THEN "null" ELSE "stable"

\* five samples of which the three newest lie at least 0.12 above the others
C6_Witness ==
    /\ call.fn = "detectCurrentPhase"
    /\ call.readings = [k \in 1..5 |-> Sample(IF k <= 2 THEN 3640 ELSE 3664, (k - 1) * DayLen + 7)]
    /\ call.result.trend = "stable"

EngineCall(c) == c.fn \in {"detectOvulation", "predictPeriodStart", "detectCurrentPhase"}

Flat8(s) == Len(s) = 8 /\ \A k \in 1..8 : s[k].temperature = s[1].temperature

\* C7 as stated: on 8 samples of one temperature detectOvulation returns
\* null and detectCurrentPhase returns insufficient-data
C7_Original ==
    (EngineCall(call) /\ Flat8(call.readings)) =>
        /\ call.fn = "detectOvulation" => call.result = Null
        /\ call.fn = "detectCurrentPhase" => call.result.phase = "insufficient-data"

\* C7 amended: on 8 samples of one temperature detectOvulation returns null
\* and detectCurrentPhase returns transition
C7_FlatIsTransition ==
    (EngineCall(call) /\ Flat8(call.readings)) =>
        /\ call.fn = "detectOvulation" => call.result = Null
        /\ call.fn = "detectCurrentPhase" =>
               /\ ~call.result.ovulation.detected
               /\ call.result.phase = "transition"

C7_Witness ==
    /\ call.fn = "detectCurrentPhase"
    /\ Flat8(call.readings)
    /\ call.readings[1].temperature = 3640
    /\ call.result.phase = "transition"

\* six oldest samples at 36.30-36.40, three newest at 36.70-36.80
IsScenarioA(s) ==
    /\ Len(s) = 9
    /\ LET c == Chronological(s)
       IN  /\ \A k \in 1..6 : 3630 <= c[k].temperature /\ c[k].temperature <= 3640
           /\ \A k \in 7..9 : 3670 <= c[k].temperature /\ c[k].temperature <= 3680

\* C8 as stated: the event has confidence medium and a temperatureRise
\* between 0.35 and 0.45
C8_Original ==
    (call.fn = "detectOvulation" /\ IsScenarioA(call.readings)) =>
        /\ call.result.detected
        /\ call.result.confidence = "medium"
        /\ 35 <= call.result.temperatureRise /\ call.result.temperatureRise <= 45

\* C8 amended: the event is detected with a temperatureRise between 0.30
\* and 0.50 and confidence low or medium
C8_ScenarioA ==
    (call.fn = "detectOvulation" /\ IsScenarioA(call.readings)) =>
        /\ call.result.detected
        /\ call.result.confidence \in {"low", "medium"}
        /\ 30 <= call.result.temperatureRise /\ call.result.temperatureRise <= 50

\* 36.30 six times, then 36.80 three times: a rise reported as 0.50
C8_Witness ==
    /\ call.fn = "detectOvulation"
    /\ IsScenarioA(call.readings)
    /\ \A k \in 1..9 : call.readings[k].temperature \in {3630, 3680}
    /\ call.result.detected
    /\ call.result.temperatureRise = 50
    /\ call.result.confidence = "medium"

Tier(confidence) ==
    IF confidence = "low" THEN 1 ELSE IF confidence = "medium" THEN 2 ELSE 3

\* the avgRise of the window the detection of call c fired on
AvgRiseOf(c) ==
    LET rec == Newest30(c.readings)
    IN  Window(rec, CHOOSE i \in 6..(Len(rec) - 3) :
                        /\ Fires(Window(rec, i))
                        /\ \A j \in 6..(i - 1) : ~Fires(Window(rec, j))).avgRise

\* C9: a detected event is high when avgRise >= 0.5, medium when
\* 0.4 <= avgRise < 0.5 and low when 0.3 <= avgRise < 0.4, and of two
\* detections the one with the larger avgRise never has the lower tier
C9_Confidence ==
    [][(Detected(call') /\ call' # call) =>
          \A rise \in {AvgRiseOf(call')} :
              /\ LGe(rise, Ge03)
              /\ call'.result.confidence = "high" <=> LGe(rise, Ge05)
              /\ call'.result.confidence = "medium" <=> (LGe(rise, Ge04) /\ LLt(rise, Ge05))
              /\ call'.result.confidence = "low" <=> LLt(rise, Ge04)
              /\ Detected(call) =>
                     \A before \in {AvgRiseOf(call)} :
                         /\ LGe(rise, before) =>
                                Tier(call'.result.confidence) >= Tier(call.result.confidence)
                         /\ LGe(before, rise) =>
                                Tier(call.result.confidence) >= Tier(call'.result.confidence)]_vars

\* a detection of tier low has been returned and the samples, changed since,
\* now give a detection of tier high: the next call pairs the two
C9_Witness ==
    /\ Detected(call)
    /\ call.result.confidence = "low"
    /\ detectOvulation(readings).detected
    /\ detectOvulation(readings).confidence = "high"

\* C10 as stated: a second call of the same function with the same sample
\* sequence returns what the first returned, whatever the clock and the
\* settings are
C10_Original ==
    [][(EngineCall(call) /\ call'.fn = call.fn /\ call'.readings = call.readings) =>
          call'.result = call.result]_vars

\* a phase computed under simulation after the wall clock has moved on
C10_Witness ==
    /\ call.fn = "detectCurrentPhase"
    /\ Has(userSettings.simulation, "date")
    /\ userSettings.simulation.enabled
    /\ call.now = Some(NoonUTC(userSettings.simulation.date[1]))
    /\ clock > StartClock
    /\ call.result.ovulation.detected

\* C11: whenever daysSinceOvulation is 0, detectCurrentPhase returns phase
\* ovulation and the period prediction it carries is not in its window
C11_OvulationDay ==
    (PhaseCall(call) /\ call.result.daysSinceOvulation = Some(0)) =>
        /\ call.result.phase = "ovulation"
        /\ ~call.result.periodPrediction.isInWindow

\* a phase computed on the local day of the detected event
C11_Witness ==
    /\ PhaseCall(call)
    /\ call.result.ovulation.detected
    /\ call.result.daysSinceOvulation = Some(0)
    /\ LocalDay(call.now[1]) = LocalDay(call.result.ovulation.date)

\* the calls that produced a period prediction, the event each was made
\* from and the prediction
Predicted(c) ==
    \/ c.fn = "predictPeriodStart" /\ c.result # NoPrediction
    \/ PhaseCall(c) /\ c.result.ovulation.detected

EventOf(c) ==
    IF c.fn = "predictPeriodStart" THEN detectOvulation(c.readings)
    ELSE c.result.ovulation

PredictionOf(c) ==
    IF c.fn = "predictPeriodStart" THEN c.result ELSE c.result.periodPrediction

\* C12: for every detected event the prediction's windowStart, mostLikely
\* and windowEnd are the days 12, 13 and 14 days after the day of the
\* event, so that they are in this order and one day apart
C12_Original ==
    Predicted(call) =>
        LET day == IsoDate(EventOf(call).date)
            p   == PredictionOf(call)
        IN  /\ p.windowStart = day + 12
            /\ p.mostLikely = day + 13
            /\ p.windowEnd = day + 14
            /\ p.mostLikely - p.windowStart = 1
            /\ p.windowEnd - p.mostLikely = 1

\* a prediction made from an event whose 12th and 13th day after lie on
\* the two sides of the zone's clock change
C12_Witness ==
    /\ Predicted(call)
    /\ dst # 0
    /\ AddDays(EventOf(call).date, 12) < DstStart
    /\ AddDays(EventOf(call).date, 13) >= DstStart

\* C13: isInWindow is true exactly when the local midnight of now lies
\* between the instants 12 and 14 calendar days after the instant of the
\* event, both included; for an event not taken at local midnight, in a
\* zone that does not move its clocks, these are the 13th and the 14th
\* calendar day after the day of the event
C13_InWindow ==
    Predicted(call) =>
        LET event == EventOf(call).date
            today == Midnight(call.now[1])
            days  == LocalDay(call.now[1]) - LocalDay(event)
        IN  /\ PredictionOf(call).isInWindow <=>
                   (AddDays(event, 12) <= today /\ today <= AddDays(event, 14))
            /\ (dst = 0 /\ Midnight(event) # event) =>
                   (PredictionOf(call).isInWindow <=> days \in {13, 14})

\* in the window on the 14th day, at an hour of the day later than the
\* event's: now itself is past the end of the window, its midnight is not
C13_Witness ==
    /\ Predicted(call)
    /\ PredictionOf(call).isInWindow
    /\ call.now[1] > AddDays(EventOf(call).date, 14)

\* k is the least whole number of days that covers x hours
IsCeilDays(k, x) == k * DayLen >= x /\ (k - 1) * DayLen < x

\* C14: daysUntilEarliest, daysUntilMostLikely and daysUntilLatest are the
\* ceilings of the days from the local midnight of now to the instants 12,
\* 13 and 14 days after the event; none is clamped at 0, each is negative
\* exactly when its target lies a full day or more before that midnight
C14_DaysUntil ==
    Predicted(call) =>
        LET event == EventOf(call).date
            today == Midnight(call.now[1])
            p     == PredictionOf(call)
        IN  /\ IsCeilDays(p.daysUntilEarliest, AddDays(event, 12) - today)
            /\ IsCeilDays(p.daysUntilMostLikely, AddDays(event, 13) - today)
            /\ IsCeilDays(p.daysUntilLatest, AddDays(event, 14) - today)
            /\ p.daysUntilEarliest < 0 <=> AddDays(event, 12) <= today - DayLen
            /\ p.daysUntilMostLikely < 0 <=> AddDays(event, 13) <= today - DayLen
            /\ p.daysUntilLatest < 0 <=> AddDays(event, 14) <= today - DayLen

\* a window that has passed: all three counts are negative
C14_Witness ==
    /\ Predicted(call)
    /\ PredictionOf(call).daysUntilEarliest < PredictionOf(call).daysUntilLatest
    /\ PredictionOf(call).daysUntilLatest < 0

\* the indices (0-based) of the whole history, oldest first, at which the
\* 3-over-6 rule is met with a baseline that reaches behind the 30 newest
StaleHits(s) ==
    LET c == Chronological(s)
    IN  {j \in 6..(Len(s) - 3) : j - 6 < Len(s) - 30 /\ Fires(Window(c, j))}

\* C15: detectOvulation returns what it returns on the 30 newest samples
\* alone, and never the event of a rise whose baseline needs a sample older
\* than those
C15_Newest30Only ==
    call.fn = "detectOvulation" =>
        /\ call.result = detectOvulation(Newest30(call.readings))
        /\ \A j \in StaleHits(call.readings) :
               call.result.detected =>
                   call.result.date # Chronological(call.readings)[j + 1].timestamp

\* more than 30 samples with a rise that only the whole history shows,
\* and no detection
C15_Witness ==
    /\ call.fn = "detectOvulation"
    /\ Len(call.readings) > 30
    /\ StaleHits(call.readings) # {}
    /\ call.result = Null

\* the mean of the temperatures of samples a, b and c, added in this order
Mean3(a, b, c) ==
    FDiv(FAdd(FAdd(Dbl(a.temperature), Dbl(b.temperature)), Dbl(c.temperature)), 3)

\* C16: with 6 or more samples the trend is rising when the mean of the 3
\* newest is at least 0.2 above the mean of the next 3, falling when it is
\* at least 0.2 below, and stable otherwise: it is decided by the 6 newest
\* samples alone
C16_Trend ==
    (PhaseCall(call) /\ Len(call.readings) >= 6) =>
        LET n7        == Newest7(call.readings)
            avgRecent == Mean3(n7[1], n7[2], n7[3])
            avgOlder  == Mean3(n7[4], n7[5], n7[6])
        IN  call.result.trend =
                IF LGe(LSub(avgRecent, avgOlder), Ge02) THEN "rising"
                ELSE IF LGe(LSub(avgOlder, avgRecent), Ge02) THEN "falling"
                ELSE "stable"

\* a stable trend over seven samples whose seventh newest lies 0.24 below
\* the three before it
C16_Witness ==
    /\ PhaseCall(call)
    /\ Len(call.readings) = 7
    /\ call.result.trend = "stable"
    /\ LET n7 == Newest7(call.readings)
       IN  /\ n7[7].temperature = 3640
           /\ \A k \in 1..6 : n7[k].temperature = 3664

\* C17: for the empty sequence detectCurrentPhase returns phase unknown
\* with its placeholder name, null for temperature, trend and
\* daysSinceOvulation, and no avgBBT, ovulation or periodPrediction
C17_EmptyIsUnknown ==
    (call.fn = "detectCurrentPhase" /\ call.readings = <<>>) =>
        /\ call.result.phase = "unknown"
        /\ call.result.phaseName = "Unknown"
        /\ call.result.temperature = None
        /\ call.result.trend = "null"
        /\ call.result.daysSinceOvulation = None
        /\ DOMAIN call.result \cap {"avgBBT", "ovulation", "periodPrediction"} = {}

\* the phase asked for with no samples
C17_Witness ==
    /\ call.fn = "detectCurrentPhase"
    /\ call.readings = <<>>
    /\ call.now = None
    /\ call.result.phase = "unknown"

\* C18: detectOvulation and detectCurrentPhase leave the caller's sequence
\* as it was given: the same samples in the same order, also when it was
\* given unsorted
C18_InputUnchanged ==
    [][(call' # call /\ call'.fn \in {"detectOvulation", "detectCurrentPhase"}) =>
          /\ readings = call'.readings
          /\ readings' = readings]_vars

\* a call made on samples that were handed over out of order, which are
\* still in that order
C18_Witness ==
    /\ call.fn \in {"detectOvulation", "detectCurrentPhase"}
    /\ readings = call.readings
    /\ readings # SortByTimestamp(readings, 1)
    /\ readings # SortByTimestamp(readings, -1)

CalendarCall(c) == c.fn = "calendar" /\ c.result.status = 200

\* the readings of s taken before the end of the day-th day of the month,
\* newest first
AsOfDay(s, month, day) ==
    SortByTimestamp(SelectSeq(s, LAMBDA r : r.timestamp < DateOf(month, day + 1)), -1)

\* the label the classifier's rules give for the day-th day of the month of
\* calendar call c
ClassifierLabel(c, day) ==
    IF c.result.ovulation.detected
    THEN PhaseByDays(FloorDays(DateOf(c.result.month, day)
                               - Midnight(c.result.ovulation.date)))
    ELSE PhaseByTemperature(AsOfDay(c.readings, c.result.month, day))

\* C19 (as stated): every day of the calendar that has a reading carries the
\* label the classifier's rules give as of that day, by the days-since-
\* ovulation table counted between midnights when ovulation is detected and
\* by the thresholds around the seven-sample average when it is not
C19_Original ==
    CalendarCall(call) =>
        \A day \in 1..call.result.daysInMonth :
            call.result.calendarData[day].hasReading =>
                call.result.calendarData[day].phase = ClassifierLabel(call, day)

\* a calendar with a detected event whose 15th day after the event has a
\* reading and is labelled luteal, in a zone that keeps one offset
C19_Witness ==
    /\ CalendarCall(call)
    /\ dst = 0
    /\ call.result.ovulation.detected
    /\ \E day \in 1..call.result.daysInMonth :
           /\ call.result.calendarData[day].hasReading
           /\ LocalDay(DateOf(call.result.month, day))
                  - LocalDay(call.result.ovulation.date) = 15
           /\ call.result.calendarData[day].phase = "luteal"

\* demo simulation is enabled with a date
Simulating ==
    LET sim == userSettings.simulation
    IN  /\ Has(sim, "enabled") /\ sim.enabled
        /\ Has(sim, "date") /\ sim.date # None

SimulatedDate == userSettings.simulation.date[1]

\* the temperature field for the reading of UTC day d
TemperatureOn(d) ==
    IF getTemperatureForDate(d) = None THEN None
    ELSE Some(getTemperatureForDate(d)[1].temperature)

\* phaseInfo is the classification as of noon UTC of day d
AsOf(phaseInfo, d) ==
    phaseInfo.ovulation.detected =>
        LET event == phaseInfo.ovulation.date
            today == Midnight(NoonUTC(d))
        IN  /\ phaseInfo.daysSinceOvulation = Some(FloorDays(today - Midnight(event)))
            /\ phaseInfo.phase = PhaseByDays(FloorDays(today - Midnight(event)))
            /\ phaseInfo.periodPrediction.daysUntilMostLikely
                   = CeilDays(AddDays(event, 13) - today)
            /\ phaseInfo.periodPrediction.isInWindow
                   = (today >= AddDays(event, 12) /\ today <= AddDays(event, 14))

\* C20 (as stated): while demo simulation is enabled with date d, the today
\* summary carries d as its date and the reading of d, the chart window is
\* the 28 days that end with d, and the phase and the period prediction are
\* those as of d, whatever the wall clock shows
C20_Original ==
    [][Simulating =>
          /\ (GetToday /\ call'.result.status = 200) =>
                 /\ call'.result.date = SimulatedDate
                 /\ call'.result.temperature = TemperatureOn(SimulatedDate)
                 /\ call'.result.hasReading = (TemperatureOn(SimulatedDate) # None)
                 /\ AsOf(call'.result, SimulatedDate)
          /\ (GetPhase /\ Len(readings) > 0) =>
                 AsOf(call'.result.phaseInfo, SimulatedDate)
          /\ GetChart =>
                 /\ call'.result.window.end = SimulatedDate
                 /\ call'.result.window.start = SimulatedDate - (windowDays - 1)
                 /\ Len(call'.result.temperatureData) = windowDays]_vars

\* a today summary given while day 5 is simulated: it is dated by the wall
\* clock and reports no reading, and day 5 has one
C20_Witness ==
    /\ call.fn = "today"
    /\ call.result.status = 200
    /\ Simulating
    /\ SimulatedDate = 5
    /\ call.now = Some(NoonUTC(5))
    /\ call.result.date = IsoDate(clock)
    /\ call.result.date # 5
    /\ ~call.result.hasReading
    /\ TemperatureOn(5) # None

PostCall(c) == c.fn = "postTemperature" /\ c.result.status = 201

\* C21 (as stated): when POST /temperature answers 201 with success true the
\* returned reading is in the table once the request has completed
C21_Original ==
    [][(call' # call /\ PostCall(call')) =>
          /\ call'.result.success
          /\ call'.result.reading \in Range(readings')]_vars

\* a device without network time posts one hour after boot: 201, and the
\* reading, dated 1970, is not in the table
C21_Witness ==
    /\ PostCall(call)
    /\ call.body.timestamp = [unix |-> 1]
    /\ call.result.reading.timestamp = FromUnix(1)
    /\ call.result.reading \notin Range(readings)

\* the GET /bunny requests that called the model API for the date dateStr
GetCallers(dateStr) ==
    {e.id : e \in {x \in modelCalls : x.kind = "get" /\ x.todayStr = dateStr}}

\* C22 (as stated): for every date at most one GET /bunny request calls the
\* model API, whatever the interleaving of the requests
C22_Original == \A e \in modelCalls : Cardinality(GetCallers(e.todayStr)) <= 1

\* two GET /bunny requests of the same date are both awaiting the model:
\* the second arrived before the first stored its response
C22_Witness ==
    \E r1 \in requests : \E r2 \in requests :
        /\ r1.id # r2.id
        /\ r1.kind = "get" /\ r2.kind = "get"
        /\ r1.todayStr = r2.todayStr
        /\ ~Has(dailyCache, r1.todayStr)
        /\ {r1.id, r2.id} \subseteq GetCallers(r1.todayStr)

\* the model answered a call with a rate-limit error on the local day of now
LimitedToday(calls, modelName) ==
    \E f \in calls :
        /\ f.model = modelName
        /\ f.outcome = "rateLimit"
        /\ f.limitedOn = Some(LocalDay(clock))

\* the calls of one request follow the list, no model twice, and every call
\* before another one failed
InListOrder(calls) ==
    \A e1 \in calls : \A e2 \in calls :
        (e1.id = e2.id /\ e1 # e2) =>
            /\ e1.seq # e2.seq
            /\ e1.seq < e2.seq =>
                   /\ ModelIndex(e1.model) < ModelIndex(e2.model)
                   /\ e1.outcome \in {"error", "rateLimit"}

\* the list position from which the request id goes on after its answered calls
ResumeAt(calls, id) ==
    LET tried == {ModelIndex(e.model) :
                      e \in {x \in calls : x.id = id /\ x.outcome # "pending"}}
    IN  IF tried = {} THEN 1
        ELSE 1 + CHOOSE j \in tried : \A k \in tried : k <= j

\* C23: within one request the models are called in MODEL_FALLBACKS order,
\* each at most once and none after a success; a call is never made to a
\* model that answered a rate-limit error earlier the same local day, and
\* a model is passed over only if it did (a model that failed with another
\* error is called again)
C23_FallbackOrder ==
    [][/\ InListOrder(modelCalls')
       /\ \A e \in modelCalls' \ modelCalls :
              e.outcome = "pending" =>
                  /\ ~LimitedToday(modelCalls', e.model)
                  /\ ModelIndex(e.model) >= ResumeAt(modelCalls', e.id)
                  /\ \A j \in ResumeAt(modelCalls', e.id)..(ModelIndex(e.model) - 1) :
                         LimitedToday(modelCalls', Models[j])]_vars

\* a request whose first call goes to the second model of the list, the
\* first one having answered another request with a rate-limit error that
\* day, while an earlier failure of the second model was of another kind
C23_Witness ==
    \E e \in modelCalls : \E f \in modelCalls : \E g \in modelCalls :
        /\ e.seq = 1 /\ e.model = Models[2]
        /\ f.id # e.id /\ f.model = Models[1] /\ f.outcome = "rateLimit"
        /\ f.limitedOn = Some(LocalDay(clock))
        /\ g.id = f.id /\ g.model = Models[2] /\ g.outcome = "error"

\* C24 (as stated): a PUT /settings whose preferences.simulation has no date
\* leaves the simulation date that is stored as it was
C24_Original ==
    [][\A b \in SimBodies :
          (/\ PutSettings([preferences |-> [simulation |-> b]])
           /\ ~Has(b, "date")
           /\ Has(userSettings.simulation, "date")
           /\ userSettings.simulation.date # None) =>
              /\ Has(userSettings'.simulation, "date")
              /\ userSettings'.simulation.date = userSettings.simulation.date]_vars

\* the stored simulation object after such a request: disabled, and without
\* the date field it had
C24_Witness ==
    /\ ~Has(userSettings.simulation, "date")
    /\ userSettings.simulation = [enabled |-> FALSE]

\* C25: two readings are never started less than 5000 ms apart, by the
\* time between the presses that start them; a press 5000 ms or less
\* after the press of the last reading starts nothing (the sensor is read
\* and the payload sent only when a reading starts) and takes one pass of
\* the loop, 100 ms; a touch that is still held starts nothing
C25_Cooldown ==
    [][/\ \A k \in 1..(Len(started') - 1) :
              started'[k + 1] - started'[k] >= READING_COOLDOWN
       /\ (/\ ~lastTouchState /\ lastTouchState'
           /\ started # <<>>
           /\ uptime' - Ms(100) - started[Len(started)] <= READING_COOLDOWN) =>
              /\ started' = started
              /\ lastReadingTime' = lastReadingTime
       /\ (lastTouchState /\ lastTouchState') => started' = started]_vars

\* the second reading was started 5100 ms after the first with the touch
\* still held, and the third after millis() had gone round, at a value of
\* millis() below the one of the second
C25_Witness ==
    /\ Len(started) = 3
    /\ started[2] - started[1] = Ms(5100)
    /\ started[3] > WrapTime
    /\ lastReadingTime < started[2]
    /\ lastTouchState

\* the order of the phases of a cycle
PhaseOrder(phase) ==
    CASE phase = "pre-ovulation" -> 1
      [] phase = "ovulation" -> 2
      [] phase = "luteal" -> 3
      [] phase = "pre-menstrual" -> 4

\* C26 (as stated): of two calls on the same samples with ovulation detected,
\* the second with now one day later, the second reports the same event, a
\* phase not earlier in the cycle and daysSinceOvulation greater by exactly
\* 1, and the phase goes from luteal to pre-menstrual exactly when
\* daysSinceOvulation goes from 14 to 15
C26_Original ==
    [][(/\ PhaseCall(call) /\ PhaseCall(call')
        /\ call'.readings = call.readings
        /\ call'.now[1] = call.now[1] + DayLen
        /\ call.result.ovulation.detected) =>
           /\ call'.result.ovulation = call.result.ovulation
           /\ PhaseOrder(call'.result.phase) >= PhaseOrder(call.result.phase)
           /\ call'.result.daysSinceOvulation[1] = call.result.daysSinceOvulation[1] + 1
           /\ (call.result.phase = "luteal" /\ call'.result.phase = "pre-menstrual")
                  <=> (/\ call.result.daysSinceOvulation = Some(14)
                       /\ call'.result.daysSinceOvulation = Some(15))]_vars

\* the day after the zone has moved its clocks forward: the call of the day
\* before reported the daysSinceOvulation that a call reports now
C26_Witness ==
    /\ PhaseCall(call)
    /\ call.readings = readings
    /\ call.result.ovulation.detected
    /\ call.now = Some(clock - DayLen)
    /\ Offset(clock) = tz + 1
    /\ detectCurrentPhase(readings).daysSinceOvulation = call.result.daysSinceOvulation

OvulationCall(c) == c.fn = "detectOvulation"

\* t is s with one sample added at its end that is newer than all of s
AppendedNewer(s, t) ==
    /\ Len(s) > 0
    /\ Len(t) = Len(s) + 1
    /\ SubSeq(t, 1, Len(s)) = s
    /\ t[Len(t)].timestamp > MaxTs(s)

\* C27: when detectOvulation has detected an event on a sequence and is
\* called again on the sequence with one newer sample appended, 30 samples
\* at most, it returns the same event
C27_AppendKeepsEvent ==
    [][(/\ OvulationCall(call) /\ OvulationCall(call')
        /\ call.result.detected
        /\ AppendedNewer(call.readings, call'.readings)
        /\ Len(call'.readings) <= 30) =>
           call'.result = call.result]_vars

\* a call on ten samples, the newest at the end of a second rise that
\* would fire by itself, answered with the event of the first nine
C27_Witness ==
    /\ OvulationCall(call)
    /\ Len(call.readings) = 10
    /\ AppendedNewer(SubSeq(call.readings, 1, 9), call.readings)
    /\ detectOvulation(SubSeq(call.readings, 1, 9)).detected
    /\ call.result.detected
    /\ Cardinality(Hits(SortByTimestamp(call.readings, 1), 6)) = 2

\* the samples of s fall on distinct calendar days of the zone
DistinctDays(s) ==
    \A i \in 1..Len(s) : \A j \in 1..Len(s) :
        i # j => LocalDay(s[i].timestamp) # LocalDay(s[j].timestamp)

NoneLater(s, now) == \A k \in 1..Len(s) : s[k].timestamp <= now

\* C28 (as stated): on samples of distinct calendar days, none later than
\* now, a detected ovulation has daysSinceOvulation >= 2, the phase is
\* never ovulation, and it is pre-ovulation only without a detection
C28_Original ==
    (/\ PhaseCall(call)
     /\ DistinctDays(call.readings)
     /\ NoneLater(call.readings, call.now[1])) =>
        /\ call.result.ovulation.detected => call.result.daysSinceOvulation[1] >= 2
        /\ call.result.phase # "ovulation"
        /\ call.result.phase = "pre-ovulation" => ~call.result.ovulation.detected

\* a call on the day of the newest sample, the second calendar day after
\* the event's, the clocks having moved forward in between: daysSinceOvulation 1
C28_Witness ==
    /\ PhaseCall(call)
    /\ DistinctDays(call.readings)
    /\ NoneLater(call.readings, call.now[1])
    /\ call.result.ovulation.detected
    /\ LocalDay(call.now[1]) - LocalDay(call.result.ovulation.date) = 2
    /\ call.result.daysSinceOvulation = Some(1)
    /\ call.result.phase = "luteal"

\* C29 (as stated): when periodPrediction.isInWindow is true,
\* daysSinceOvulation is 12, 13 or 14 and the phase is luteal (and so never
\* pre-menstrual)
C29_Original ==
    (/\ PhaseCall(call)
     /\ call.result.ovulation.detected
     /\ call.result.periodPrediction.isInWindow) =>
        /\ call.result.daysSinceOvulation[1] \in {12, 13, 14}
        /\ call.result.phase = "luteal"
        /\ call.result.phase # "pre-menstrual"

\* in the window on the 12th calendar day after an event dated at local
\* midnight, the clocks having moved forward since: daysSinceOvulation 11
C29_Witness ==
    /\ PhaseCall(call)
    /\ call.result.ovulation.detected
    /\ call.result.periodPrediction.isInWindow
    /\ Midnight(call.result.ovulation.date) = call.result.ovulation.date
    /\ LocalDay(call.now[1]) - LocalDay(call.result.ovulation.date) = 12
    /\ call.result.daysSinceOvulation = Some(11)

====
